---- MODULE Spec2Model ----
(***************************************************************************)
(* A model of fetch_users.py: the file cache with expiry (CacheManager),   *)
(* the remote fetcher with rate limiting and outcome mapping               *)
(* (UserFetcher.fetch_users), the display step (UserFetcher.display_users) *)
(* and the command line entry point (main).                                *)
(*                                                                         *)
(* Time is counted in ticks of half a second since the Unix epoch; the     *)
(* wall clock (datetime.now(), time.time()) is the variable now.           *)
(***************************************************************************)
EXTENDS Integers, Sequences, FiniteSets, TLC

\* ------------------------------------------------------------------ bounds
MaxTime == 4          \* the clock is followed up to this tick
MaxDuration == 2      \* cache durations 0..MaxDuration ticks are explored
MaxDelay == 1         \* a GET takes 0..MaxDelay ticks
MaxLimit == 3         \* --limit values -1..MaxLimit are explored

\* min_interval of _rate_limit: 1.0 second = 2 ticks
MinInterval == 2

Durations == 0..MaxDuration
Delays == 0..MaxDelay

\* ------------------------------------------------------------ Optional[T]
NoneT == [isNone |-> TRUE, v |-> 0]
SomeT(x) == [isNone |-> FALSE, v |-> x]
NoneU == [isNone |-> TRUE, v |-> <<>>]
SomeU(x) == [isNone |-> FALSE, v |-> x]

\* Python truthiness of an Optional[float]: None and 0.0 are both falsy
TruthyNum(o) == ~o.isNone /\ o.v # 0
\* Python truthiness of an Optional[list]: None and [] are both falsy
TruthyList(o) == ~o.isNone /\ Len(o.v) > 0

\* ----------------------------------------------------------- user records
\* A city is a string, modelled as a tuple of characters.
NA == <<"N", "/", "A">>
Springfield == <<"S", "p">>
Boston == <<"B", "o">>

\* The value stored under a key of a user record: missing, a mapping
\* (with or without the inner key) or some JSON value that is not a mapping.
Absent == [kind |-> "absent", has |-> FALSE, val |-> <<>>]
Mapping(c) == [kind |-> "map", has |-> TRUE, val |-> c]
EmptyMapping == [kind |-> "map", has |-> FALSE, val |-> <<>>]
NotMapping == [kind |-> "str", has |-> FALSE, val |-> <<>>]

\* a string stored under a key, and a JSON number stored under it
Text(s) == [kind |-> "text", has |-> TRUE, val |-> s]
Number == [kind |-> "num", has |-> FALSE, val |-> <<>>]

\* The records carry no email key.
U1 == [id |-> 1, name |-> Text(<<"A", "b">>), address |-> Mapping(Springfield),
       company |-> Mapping(<<"R">>)]
U2 == [id |-> 2, name |-> Text(<<"b", "c">>), address |-> Mapping(Boston),
       company |-> Absent]
U3 == [id |-> 3, name |-> Absent, address |-> Absent, company |-> EmptyMapping]
UBadAddress == [id |-> 4, name |-> Text(<<"C", "d">>), address |-> NotMapping,
                company |-> Mapping(<<"R">>)]
UBadCompany == [id |-> 5, name |-> Text(<<"c", "d">>), address |-> Mapping(Springfield),
                company |-> NotMapping]
UBadName == [id |-> 6, name |-> Number, address |-> Mapping(Boston), company |-> Absent]

\* JSON arrays the upstream may answer with
Bodies == { <<>>, <<U1>>, <<U2, U1>>, <<UBadAddress, U1>> }

\* ------------------------------------------------------- upstream answers
StatusCodes == {200, 304, 404}

\* response.json() raises json.JSONDecodeError (a ValueError) with
\* requests < 2.27 and requests.exceptions.JSONDecodeError (an
\* InvalidJSONError, hence a RequestException, and a ValueError) since.
JsonErrors == {"json.JSONDecodeError", "requests.JSONDecodeError"}

Responses ==
  { [exc |-> e, status |-> 0, parses |-> FALSE, json |-> <<>>, jsonError |-> "none"] :
      e \in {"ReadTimeout", "ConnectTimeout", "ConnectionError", "TooManyRedirects"} }
  \cup { [exc |-> "none", status |-> s, parses |-> TRUE, json |-> b, jsonError |-> "none"] :
      s \in StatusCodes, b \in Bodies }
  \cup { [exc |-> "none", status |-> s, parses |-> FALSE, json |-> <<>>,
           jsonError |-> j] : s \in StatusCodes, j \in JsonErrors }

\* the answer recorded for a call that never reached the network
NoResponse ==
  [exc |-> "unused", status |-> 0, parses |-> FALSE, json |-> <<>>, jsonError |-> "none"]

\* The classes an exception is an instance of (its class and its bases).
ExcClasses(e) ==
  CASE e = "ReadTimeout" -> {"Timeout", "RequestException"}
    [] e = "ConnectTimeout" -> {"ConnectionError", "Timeout", "RequestException"}
    [] e = "ConnectionError" -> {"ConnectionError", "RequestException"}
    [] e = "TooManyRedirects" -> {"RequestException"}
    [] e = "HTTPError" -> {"HTTPError", "RequestException"}
    [] e = "json.JSONDecodeError" -> {"ValueError"}
    [] e = "requests.JSONDecodeError" -> {"RequestException", "ValueError"}
    [] OTHER -> {}

\* ---------------------------------------------------------- the cache file
NoFile == [kind |-> "absent", timestamp |-> 0, data |-> <<>>]
CorruptFile == [kind |-> "corrupt", timestamp |-> 0, data |-> <<>>]
\* json.dump of {'timestamp': ..., 'data': ...}
JsonFile(ts, data) == [kind |-> "json", timestamp |-> ts, data |-> data]

WriteFaults == {"none", "open", "dump"}

\* CacheManager.get with the expiry test written "<=": an entry as old as
\* cache_duration would still be served
CacheManager_get_inclusive(file, cache_duration, t, readFails) ==
  IF file.kind = "absent" THEN [ret |-> NoneU, warned |-> FALSE]
  ELSE IF readFails \/ file.kind = "corrupt" THEN [ret |-> NoneU, warned |-> TRUE]
  ELSE IF t - file.timestamp <= cache_duration
       THEN [ret |-> SomeU(file.data), warned |-> FALSE]
       ELSE [ret |-> NoneU, warned |-> FALSE]

\* CacheManager.get: the cached data if the file exists, can be read and
\* parsed, and is younger than cache_duration; None otherwise.  Every
\* exception of the read is caught and logged.
CacheManager_get(file, cache_duration, t, readFails) ==
  IF file.kind = "absent" THEN [ret |-> NoneU, warned |-> FALSE]
  ELSE IF readFails \/ file.kind = "corrupt" THEN [ret |-> NoneU, warned |-> TRUE]
  ELSE IF t - file.timestamp < cache_duration
       THEN [ret |-> SomeU(file.data), warned |-> FALSE]
       ELSE [ret |-> NoneU, warned |-> FALSE]

\* CacheManager.set that leaves an entry already in the file alone
CacheManager_set_keepsOld(file, data, t, writeFault) ==
  CASE writeFault = "none" ->
         [file |-> IF file.kind = "json" THEN file ELSE JsonFile(t, data),
          warned |-> FALSE]
    [] writeFault = "open" -> [file |-> file, warned |-> TRUE]
    [] OTHER -> [file |-> CorruptFile, warned |-> TRUE]

\* CacheManager.set: overwrite the file with {timestamp: now, data}.  A
\* failing open leaves the file as it was, a failing dump leaves the
\* truncated file behind; both are caught and logged.
CacheManager_set(file, data, t, writeFault) ==
  CASE writeFault = "none" -> [file |-> JsonFile(t, data), warned |-> FALSE]
    [] writeFault = "open" -> [file |-> file, warned |-> TRUE]
    [] OTHER -> [file |-> CorruptFile, warned |-> TRUE]

\* CacheManager.clear: unlink the file if it exists; a failing unlink raises.
CacheManager_clear(file, unlinkFails) ==
  IF file.kind = "absent" THEN [file |-> file, raised |-> "none"]
  ELSE IF unlinkFails THEN [file |-> file, raised |-> "OSError"]
  ELSE [file |-> NoFile, raised |-> "none"]

\* ------------------------------------------------------------ UserFetcher
NoFetcher ==
  [alive |-> FALSE, use_cache |-> FALSE, cache_duration |-> 0,
   users |-> NoneU, last_request_time |-> NoneT]

\* UserFetcher.__init__ with CacheManager.__init__: the cache directory is
\* created when caching is on, and a failing mkdir raises.
UserFetcher_init(use_cache, cache_duration, mkdirFails) ==
  IF use_cache /\ mkdirFails
  THEN [fetcher |-> NoFetcher, raised |-> "OSError"]
  ELSE [fetcher |-> [alive |-> TRUE, use_cache |-> use_cache,
                     cache_duration |-> IF use_cache THEN cache_duration ELSE 0,
                     users |-> NoneU, last_request_time |-> NoneT],
        raised |-> "none"]

\* UserFetcher._rate_limit: sleep for the rest of min_interval when a last
\* request time is recorded, then record the time after the sleep.
rate_limit(last_request_time, t) ==
  LET elapsed == t - last_request_time.v
      slept == IF TruthyNum(last_request_time) /\ elapsed < MinInterval
               THEN MinInterval - elapsed ELSE 0
  IN [slept |-> slept, now |-> t + slept, last_request_time |-> SomeT(t + slept)]

\* response.raise_for_status(): HTTPError for 4xx and 5xx
raise_for_status(status) == status >= 400 /\ status < 600

\* The exception the try block of fetch_users raises for an answer.
Raised(resp) ==
  IF resp.exc # "none" THEN resp.exc
  ELSE IF raise_for_status(resp.status) THEN "HTTPError"
  ELSE IF ~resp.parses THEN resp.jsonError
  ELSE "none"

\* The except clauses of fetch_users, in their order.
Handler(classes) ==
  IF "Timeout" \in classes THEN "Timeout"
  ELSE IF "ConnectionError" \in classes THEN "ConnectionFailure"
  ELSE IF "HTTPError" \in classes THEN "HttpError"
  ELSE IF "RequestException" \in classes THEN "TransportError"
  ELSE IF "ValueError" \in classes THEN "ParseError"
  ELSE "Uncaught"

\* line 126 with the flag inverted: the cache consulted only on a forced refresh
ConsultCache_inverted(use_cache, force_refresh) == use_cache /\ force_refresh

\* line 126: the cache is consulted when caching is on and no refresh is forced
ConsultCache(use_cache, force_refresh) == use_cache /\ ~force_refresh

\* line 146 left out: an empty list taken for a result
IsEmpty_never(users) == FALSE

\* line 146: "not users", for the parsed list
IsEmpty(users) == Len(users) = 0

\* a fetch that tries once more after a timeout
Attempts_retry(exc) == IF exc \in {"ReadTimeout", "ConnectTimeout"} THEN 2 ELSE 1

\* lines 141-181: requests.get is called once, and no except clause calls it
\* again: the number of GETs of a call that reaches the network
Attempts(exc) == 1

\* UserFetcher.fetch_users, from the state f of the fetcher, the cache file
\* and the clock t.
fetch_users(f, file, t, force_refresh, resp, readFails, writeFault, delay) ==
  LET consult == ConsultCache(f.use_cache, force_refresh)
      got == IF consult THEN CacheManager_get(file, f.cache_duration, t, readFails)
             ELSE [ret |-> NoneU, warned |-> FALSE]
  IN IF consult /\ TruthyList(got.ret)
     THEN [ret |-> got.ret, tag |-> "Success", hit |-> TRUE, gets |-> 0,
           users |-> got.ret, last_request_time |-> f.last_request_time,
           file |-> file, now |-> t, slept |-> 0, tGet |-> t,
           wrote |-> FALSE, warned |-> got.warned, message |-> "using_cached"]
     ELSE
       LET rl == rate_limit(f.last_request_time, t)
           tEnd == rl.now + delay
           exc == Raised(resp)
           base == [ret |-> NoneU, tag |-> "none", hit |-> FALSE, gets |-> Attempts(exc),
                    users |-> f.users, last_request_time |-> rl.last_request_time,
                    file |-> file, now |-> tEnd, slept |-> rl.slept, tGet |-> rl.now,
                    wrote |-> FALSE, warned |-> got.warned, message |-> "error"]
       IN IF exc # "none"
          THEN [base EXCEPT !.tag = Handler(ExcClasses(exc))]
          ELSE IF IsEmpty(resp.json)
          THEN [base EXCEPT !.tag = "EmptyResult", !.message = "warning_empty_list"]
          ELSE
            LET w == IF f.use_cache
                     THEN CacheManager_set(file, resp.json, tEnd, writeFault)
                     ELSE [file |-> file, warned |-> FALSE]
            IN [base EXCEPT !.ret = SomeU(resp.json), !.tag = "Success",
                            !.users = SomeU(resp.json), !.file = w.file,
                            !.wrote = f.use_cache /\ writeFault = "none",
                            !.warned = got.warned \/ w.warned,
                            !.message = "fetched"]

\* ---------------------------------------------------------- display_users
Formats == {"pretty", "json", "csv", "minimal"}
Limits == {NoneT} \cup {SomeT(n) : n \in -1..MaxLimit}

\* user.get(key, {}).get(inner, default): a missing key gives the default,
\* and a value that is not a mapping has no get (AttributeError).
NestedGet(field, default) ==
  CASE field.kind = "absent" -> [raised |-> "none", val |-> default]
    [] field.kind = "map" ->
         [raised |-> "none", val |-> IF field.has THEN field.val ELSE default]
    [] OTHER -> [raised |-> "AttributeError", val |-> default]

\* str.startswith('S')
startswith_S(city) == Len(city) > 0 /\ city[1] = "S"

Min(a, b) == IF a < b THEN a ELSE b
Max(a, b) == IF a > b THEN a ELSE b

\* the slice s[:n]
SliceTo(s, n) ==
  IF n >= 0 THEN SubSeq(s, 1, Min(n, Len(s)))
  ELSE SubSeq(s, 1, Max(0, Len(s) + n))

\* lines 191-199 of display_users: the city filter, then the limit
FilterAndLimit(users, filter_by_s, limit) ==
  LET filtered_users ==
        SelectSeq(users, LAMBDA user:
          ~filter_by_s \/ startswith_S(NestedGet(user.address, NA).val))
  IN IF TruthyNum(limit) THEN SliceTo(filtered_users, limit.v) ELSE filtered_users

\* the keys a format reads through a nested get
NestedKeys(format_type) ==
  IF format_type = "minimal" THEN {"address"} ELSE {"address", "company"}

\* the exceptions a format catches around one record
Catches(format_type) ==
  IF format_type \in {"pretty", "minimal"} THEN {"KeyError", "TypeError"} ELSE {}

\* the exception the rendering of one record raises
RecordError(user, format_type) ==
  IF \E k \in NestedKeys(format_type) : NestedGet(user[k], NA).raised # "none"
  THEN "AttributeError" ELSE "none"

Ids(users, idxs) ==
  LET picked == SelectSeq([i \in 1..Len(users) |-> i], LAMBDA i : i \in idxs)
  IN [j \in 1..Len(picked) |-> users[picked[j]].id]

\* _display_pretty, _display_minimal, _display_json, _display_csv: the ids of
\* the records rendered completely, the records skipped with a warning, and
\* the exception leaving the loop.  _display_json prints after its loop.
Render(users, format_type) ==
  LET n == Len(users)
      err(i) == RecordError(users[i], format_type)
      uncaught == {i \in 1..n : err(i) # "none" /\ err(i) \notin Catches(format_type)}
      stop == IF uncaught = {} THEN n + 1
              ELSE CHOOSE i \in uncaught : \A j \in uncaught : i <= j
      raised == IF uncaught = {} THEN "none" ELSE err(stop)
      done == {i \in 1..n : i < stop /\ err(i) = "none"}
  IN [raised |-> raised,
      shown |-> IF format_type = "json" /\ raised # "none" THEN <<>> ELSE Ids(users, done),
      skipped |-> Ids(users, {i \in 1..n : i < stop /\ err(i) # "none"})]

\* UserFetcher.display_users
display_users(users, filter_by_s, format_type, limit) ==
  IF Len(users) = 0
  THEN [raised |-> "none", message |-> "no_users", shown |-> <<>>, skipped |-> <<>>]
  ELSE IF \E i \in 1..Len(users) : NestedGet(users[i].address, NA).raised # "none"
  THEN [raised |-> "AttributeError", message |-> "none", shown |-> <<>>, skipped |-> <<>>]
  ELSE
    LET filtered_users == FilterAndLimit(users, filter_by_s, limit)
        r == Render(filtered_users, format_type)
    IN IF Len(filtered_users) = 0
       THEN [raised |-> "none", message |-> "no_match", shown |-> <<>>, skipped |-> <<>>]
       ELSE [raised |-> r.raised, message |-> "none", shown |-> r.shown, skipped |-> r.skipped]

\* ----------------------------------------------------------- search_users
\* str.lower(), for the letters of the model
LowerChar(c) ==
  CASE c = "A" -> "a" [] c = "B" -> "b" [] c = "C" -> "c" [] c = "D" -> "d"
    [] c = "S" -> "s" [] c = "N" -> "n" [] c = "R" -> "r" [] c = "U" -> "u"
    [] OTHER -> c
lower(s) == [i \in 1..Len(s) |-> LowerChar(s[i])]

\* "sub in s" for strings
Contains(s, sub) ==
  \E i \in 0..(Len(s) - Len(sub)) : SubSeq(s, i + 1, i + Len(sub)) = sub

\* lines 332-335: the value searched in one record, lowered; a value that is
\* not a string has no lower (AttributeError).  The fields username and
\* email are read like name; the records of the model have a name only.
SearchValue(user, field) ==
  IF field = "city"
  THEN LET g == NestedGet(user.address, <<>>)
       IN [raised |-> g.raised, val |-> lower(g.val)]
  ELSE IF field # "name" \/ user.name.kind = "absent"
       THEN [raised |-> "none", val |-> <<>>]
  ELSE IF user.name.kind = "text"
       THEN [raised |-> "none", val |-> lower(user.name.val)]
  ELSE [raised |-> "AttributeError", val |-> <<>>]

\* UserFetcher.search_users: the records of self.users whose field contains
\* the query, in their order, as a new list
search_users(self_users, query, field) ==
  IF ~TruthyList(self_users) THEN [raised |-> "none", results |-> <<>>]
  ELSE IF \E i \in 1..Len(self_users.v) :
            SearchValue(self_users.v[i], field).raised # "none"
  THEN [raised |-> "AttributeError", results |-> <<>>]
  ELSE [raised |-> "none",
        results |-> SelectSeq(self_users.v, LAMBDA user :
                      Contains(SearchValue(user, field).val, lower(query)))]

\* --------------------------------------------------------- get_statistics
Unknown == <<"U", "n">>
NoStats == [printed |-> FALSE, total |-> 0, cities |-> <<>>, s_cities |-> 0,
            most_common |-> <<>>]

\* lines 294-299: the dict cities after the first n records, as the sequence
\* of its items in insertion order
RECURSIVE CityCounts(_, _)
CityCounts(users, n) ==
  IF n = 0 THEN <<>>
  ELSE LET before == CityCounts(users, n - 1)
           city == NestedGet(users[n].address, Unknown).val
       IN IF \E i \in 1..Len(before) : before[i].city = city
          THEN [i \in 1..Len(before) |->
                  IF before[i].city = city
                  THEN [before[i] EXCEPT !.count = @ + 1] ELSE before[i]]
          ELSE Append(before, [city |-> city, count |-> 1])

\* max(cities.items(), key=count): the first item with the highest count
MostCommon(cities) ==
  IF Len(cities) = 0 THEN <<>>
  ELSE LET i == CHOOSE i \in 1..Len(cities) :
                  /\ \A j \in 1..Len(cities) : cities[j].count <= cities[i].count
                  /\ \A j \in 1..(i - 1) : cities[j].count < cities[i].count
       IN <<cities[i]>>

\* UserFetcher.get_statistics, over self.users: the total is printed before
\* the loop over the records, the other figures after it; a record whose
\* address is not a mapping raises in the loop.
get_statistics(self_users) ==
  IF ~TruthyList(self_users) THEN [raised |-> "none", stats |-> NoStats]
  ELSE
    LET users == self_users.v
        cities == CityCounts(users, Len(users))
        s_cities == Cardinality({i \in 1..Len(cities) : startswith_S(cities[i].city)})
    IN IF \E i \in 1..Len(users) : NestedGet(users[i].address, Unknown).raised # "none"
       THEN [raised |-> "AttributeError",
             stats |-> [NoStats EXCEPT !.printed = TRUE, !.total = Len(users)]]
       ELSE [raised |-> "none",
             stats |-> [printed |-> TRUE, total |-> Len(users), cities |-> cities,
                        s_cities |-> s_cities, most_common |-> MostCommon(cities)]]

\* ----------------------------------------------------------- save_to_file
\* the file under output/: missing, or the ids of the records written to it
NoOutput == [kind |-> "absent", rows |-> <<>>, complete |-> FALSE]
SaveFaults == {"none", "mkdir", "open", "write"}

\* str.endswith('.json')
endswith_json(name) ==
  Len(name) >= 5 /\ SubSeq(name, Len(name) - 4, Len(name)) = <<".", "j", "s", "o", "n">>

\* lines 360-368: the csv rows written before a record raises
CsvRows(users) ==
  LET bad == {i \in 1..Len(users) :
                \E k \in {"address", "company"} : NestedGet(users[i][k], NA).raised # "none"}
      stop == IF bad = {} THEN Len(users) + 1
              ELSE CHOOSE i \in bad : \A j \in bad : i <= j
  IN [raised |-> IF bad = {} THEN "none" ELSE "AttributeError",
      rows |-> Ids(users, 1..(stop - 1))]

\* UserFetcher.save_to_file, over self.users: json.dump of the whole list, or
\* one csv row per record; every exception is caught and reported, and the
\* file keeps what was written before it.
save_to_file(self_users, format_type, saveFault) ==
  IF ~TruthyList(self_users) THEN [out |-> NoOutput, message |-> "no_data"]
  ELSE IF saveFault \in {"mkdir", "open"} THEN [out |-> NoOutput, message |-> "error"]
  ELSE IF saveFault = "write"
  THEN [out |-> [kind |-> format_type, rows |-> <<>>, complete |-> FALSE],
        message |-> "error"]
  ELSE IF format_type = "json"
  THEN [out |-> [kind |-> "json", rows |-> Ids(self_users.v, 1..Len(self_users.v)),
                 complete |-> TRUE],
        message |-> "saved"]
  ELSE LET c == CsvRows(self_users.v)
       IN [out |-> [kind |-> "csv", rows |-> c.rows, complete |-> c.raised = "none"],
           message |-> IF c.raised = "none" THEN "saved" ELSE "error"]

\* -------------------------------------------------------------------- main
\* cache_duration of CacheManager(): 300 seconds
DefaultCacheDuration == 600

NoResult ==
  [ret |-> NoneU, tag |-> "none", hit |-> FALSE, gets |-> 0,
   slept |-> 0, tGet |-> 0, wrote |-> FALSE, warned |-> FALSE,
   raised |-> "none", message |-> "none", shown |-> <<>>, skipped |-> <<>>,
   exit |-> 0, phase |-> "none",
   self_users |-> NoneU, found |-> <<>>, stats |-> NoStats, out |-> NoOutput,
   saveMessage |-> "none"]

FetchResult(r) ==
  [NoResult EXCEPT !.ret = r.ret, !.tag = r.tag, !.hit = r.hit, !.gets = r.gets,
                   !.slept = r.slept, !.tGet = r.tGet, !.wrote = r.wrote,
                   !.warned = r.warned, !.message = r.message, !.phase = "fetch",
                   !.self_users = r.users]

\* lines 481-488 of main: the statistics when --stats is given, then the
\* file when --save names one, both over the fetcher's self.users
StatsAndSave(args, self_users, saveFault, shown) ==
  LET st == IF args.stats THEN get_statistics(self_users)
            ELSE [raised |-> "none", stats |-> NoStats]
      sv == IF Len(args.save) > 0
            THEN save_to_file(self_users,
                              IF endswith_json(args.save) THEN "json" ELSE "csv",
                              saveFault)
            ELSE [out |-> NoOutput, message |-> "none"]
  IN IF st.raised # "none"
     THEN [shown EXCEPT !.res.raised = st.raised, !.res.stats = st.stats,
                        !.res.exit = 1, !.res.phase = "stats"]
     ELSE [shown EXCEPT !.res.stats = st.stats, !.res.out = sv.out,
                        !.res.saveMessage = sv.message, !.res.phase = "done"]

\* main: build the fetcher, clear the cache and return, or fetch once, exit 1
\* on None, search, display, print the statistics, save.  An exception
\* nothing catches ends the process with status 1.
main(args, file, t, env) ==
  LET init == UserFetcher_init(~args.no_cache, DefaultCacheDuration, env.mkdirFails)
      still == [res |-> NoResult, file |-> file, now |-> t]
  IN IF init.raised # "none"
     THEN [still EXCEPT !.res.raised = init.raised, !.res.exit = 1, !.res.phase = "init"]
     ELSE IF args.clear_cache
     THEN LET c == IF init.fetcher.use_cache
                   THEN CacheManager_clear(file, env.unlinkFails)
                   ELSE [file |-> file, raised |-> "none"]
          IN [still EXCEPT !.file = c.file, !.res.raised = c.raised,
                           !.res.exit = IF c.raised # "none" THEN 1 ELSE 0,
                           !.res.phase = "clear"]
     ELSE
       LET r == fetch_users(init.fetcher, file, t, FALSE, env.resp, env.readFails,
                            env.writeFault, env.delay)
           fetched == [res |-> FetchResult(r), file |-> r.file, now |-> r.now]
       IN IF r.ret.isNone
          THEN [fetched EXCEPT !.res.exit = 1]
          ELSE
            LET searches == Len(args.search) > 0
                sr == IF searches THEN search_users(r.users, args.search, args.search_field)
                      ELSE [raised |-> "none", results |-> r.ret.v]
                users == sr.results
                d == display_users(users, args.filter_s, args.format, args.limit)
                shown == [fetched EXCEPT !.res.found = Ids(users, 1..Len(users)),
                                         !.res.message = d.message,
                                         !.res.shown = d.shown,
                                         !.res.skipped = d.skipped]
            IN IF sr.raised # "none"
               THEN [fetched EXCEPT !.res.raised = sr.raised, !.res.exit = 1,
                                    !.res.phase = "search"]
               ELSE IF searches /\ Len(users) = 0
               THEN [fetched EXCEPT !.res.message = "no_search_results",
                                    !.res.exit = 0, !.res.phase = "search"]
               ELSE IF d.raised # "none"
               THEN [shown EXCEPT !.res.raised = d.raised, !.res.exit = 1,
                                  !.res.phase = "display"]
               ELSE StatsAndSave(args, r.users, env.saveFault, shown)

\* ------------------------------------------------------------------ state
VARIABLES
  now,        \* the wall clock
  cacheFile,  \* cache/api_cache.json
  fetcher,    \* the UserFetcher object (with its CacheManager)
  call,       \* the operation that has just returned to the caller, if any
  prev        \* the fetch_users call before, on this fetcher

vars == <<now, cacheFile, fetcher, call, prev>>

NoArgs ==
  [force |-> FALSE, resp |-> NoResponse, readFails |-> FALSE, writeFault |-> "none",
   users |-> <<>>, filter_by_s |-> FALSE, format |-> "pretty", limit |-> NoneT,
   no_cache |-> FALSE, clear_cache |-> FALSE,
   search |-> <<>>, search_field |-> "name", stats |-> FALSE, save |-> <<>>,
   saveFault |-> "none"]

NoCall == [op |-> "none", t |-> 0, args |-> NoArgs, res |-> NoResult]
NoPrev ==
  [made |-> FALSE, force |-> FALSE, tEnd |-> 0, tag |-> "none", gets |-> 0,
   wrote |-> FALSE, ret |-> NoneU]

Idle == call.op = "none"

Init ==
  /\ now \in 0..1
  /\ cacheFile = NoFile
  /\ fetcher = NoFetcher
  /\ call = NoCall
  /\ prev = NoPrev

\* time passes between two operations
Tick ==
  /\ Idle
  /\ now < MaxTime
  /\ now' = now + 1
  /\ UNCHANGED <<cacheFile, fetcher, call, prev>>

\* the caller takes what the operation returned and goes on
Continue ==
  /\ ~Idle
  /\ call' = NoCall
  /\ prev' = IF call.op = "fetch"
             THEN [made |-> TRUE, force |-> call.args.force, tEnd |-> now,
                   tag |-> call.res.tag,
                   gets |-> call.res.gets, wrote |-> call.res.wrote,
                   ret |-> call.res.ret]
             ELSE IF call.op = "clear" THEN NoPrev
             ELSE prev
  /\ UNCHANGED <<now, cacheFile, fetcher>>

\* UserFetcher(use_cache=...), its CacheManager built with cache_duration
Construct(use_cache, cache_duration, mkdirFails) ==
  LET init == UserFetcher_init(use_cache, cache_duration, mkdirFails)
  IN /\ Idle /\ ~fetcher.alive
     /\ fetcher' = init.fetcher
     /\ call' = [op |-> "new", t |-> now, args |-> [NoArgs EXCEPT !.no_cache = ~use_cache],
                 res |-> [NoResult EXCEPT !.raised = init.raised]]
     /\ UNCHANGED <<now, cacheFile, prev>>

\* fetcher.cache.get()
Get(readFails) ==
  LET g == CacheManager_get(cacheFile, fetcher.cache_duration, now, readFails)
  IN /\ Idle /\ fetcher.alive /\ fetcher.use_cache
     /\ call' = [op |-> "get", t |-> now, args |-> [NoArgs EXCEPT !.readFails = readFails],
                 res |-> [NoResult EXCEPT !.ret = g.ret, !.warned = g.warned]]
     /\ UNCHANGED <<now, cacheFile, fetcher, prev>>

\* the faults a read of the cache file can meet: none when there is no file
ReadFaults(file) == IF file.kind = "absent" THEN {FALSE} ELSE BOOLEAN

\* fetcher.fetch_users(force_refresh)
FetchUsers(force_refresh, resp, readFails, writeFault, delay) ==
  \E r \in {fetch_users(fetcher, cacheFile, now, force_refresh, resp, readFails,
                      writeFault, delay)} :
     /\ Idle /\ fetcher.alive
     /\ r.now <= MaxTime
     \* inputs the call does not consume are left at their defaults
     /\ readFails => ConsultCache(fetcher.use_cache, force_refresh)
     /\ r.hit => (resp = NoResponse /\ delay = 0)
     /\ ~r.hit => resp # NoResponse
     /\ writeFault # "none" => (fetcher.use_cache /\ ~r.hit /\ r.tag = "Success")
     /\ now' = r.now
     /\ cacheFile' = r.file
     /\ fetcher' = [fetcher EXCEPT !.users = r.users,
                                   !.last_request_time = r.last_request_time]
     /\ call' = [op |-> "fetch", t |-> now,
                 args |-> [NoArgs EXCEPT !.force = force_refresh, !.resp = resp,
                                         !.readFails = readFails,
                                         !.writeFault = writeFault],
                 res |-> FetchResult(r)]
     /\ UNCHANGED prev

\* fetcher.clear_cache()
ClearCache(unlinkFails) ==
  LET c == IF fetcher.use_cache THEN CacheManager_clear(cacheFile, unlinkFails)
           ELSE [file |-> cacheFile, raised |-> "none"]
  IN /\ Idle /\ fetcher.alive
     /\ unlinkFails => (fetcher.use_cache /\ cacheFile.kind # "absent")
     /\ cacheFile' = c.file
     /\ call' = [op |-> "clear", t |-> now, args |-> NoArgs,
                 res |-> [NoResult EXCEPT !.raised = c.raised]]
     /\ UNCHANGED <<now, fetcher, prev>>

\* fetcher.display_users(users, filter_by_s, format_type, limit)
DisplayBatches ==
  { <<>>, <<U1, U2, U3>>, <<U2, U3>>, <<U1, UBadAddress, U2>>, <<UBadCompany, U1>> }

DisplayUsers(users, filter_by_s, format_type, limit) ==
  \E d \in {display_users(users, filter_by_s, format_type, limit)} :
     /\ Idle /\ fetcher.alive
     /\ call' = [op |-> "display", t |-> now,
                 args |-> [NoArgs EXCEPT !.users = users, !.filter_by_s = filter_by_s,
                                         !.format = format_type, !.limit = limit],
                 res |-> [NoResult EXCEPT !.raised = d.raised, !.message = d.message,
                                          !.shown = d.shown, !.skipped = d.skipped]]
     /\ UNCHANGED <<now, cacheFile, fetcher, prev>>

\* one run of the command line tool; the fetcher lives and dies with it
\* (m is the one evaluation of main)
Main(cli, env) ==
  \E m \in {main(cli, cacheFile, now, env)} :
  LET fetches == m.res.phase \in {"fetch", "search", "display", "stats", "done"}
      displays == m.res.phase \in {"search", "display", "stats", "done"}
  IN /\ Idle /\ ~fetcher.alive
     /\ m.now <= MaxTime
     \* inputs the run does not consume are left at their defaults
     /\ env.mkdirFails => ~cli.no_cache
     /\ env.unlinkFails => (m.res.phase = "clear" /\ ~cli.no_cache
                            /\ cacheFile.kind # "absent")
     /\ env.readFails => (fetches /\ ~cli.no_cache)
     /\ (fetches /\ ~m.res.hit) => env.resp # NoResponse
     /\ ~(fetches /\ ~m.res.hit) => (env.resp = NoResponse /\ env.delay = 0)
     /\ env.writeFault # "none" => (displays /\ ~m.res.hit /\ ~cli.no_cache)
     /\ ~displays => (/\ ~cli.filter_s /\ cli.format = "pretty" /\ cli.limit = NoneT
                      /\ cli.search = <<>> /\ ~cli.stats /\ cli.save = <<>>)
     /\ cli.search = <<>> => cli.search_field = "name"
     /\ env.saveFault # "none" => (m.res.phase = "done" /\ cli.save # <<>>)
     /\ now' = m.now
     /\ cacheFile' = m.file
     /\ call' = [op |-> "main", t |-> now,
                 args |-> [NoArgs EXCEPT !.resp = env.resp, !.readFails = env.readFails,
                                         !.writeFault = env.writeFault,
                                         !.filter_by_s = cli.filter_s,
                                         !.format = cli.format, !.limit = cli.limit,
                                         !.no_cache = cli.no_cache,
                                         !.clear_cache = cli.clear_cache,
                                         !.search = cli.search,
                                         !.search_field = cli.search_field,
                                         !.stats = cli.stats, !.save = cli.save,
                                         !.saveFault = env.saveFault],
                 res |-> m.res]
     /\ UNCHANGED <<fetcher, prev>>

\* ---------------------------------------------- one UserFetcher in a program
\* the answers followed through the life of one fetcher: a timeout, an empty
\* list and two lists of records
CoreResponses ==
  { r \in Responses : \/ r.exc = "ReadTimeout"
                      \/ r.status = 200 /\ r.parses /\ r.json \in {<<>>, <<U1>>, <<U2, U1>>} }

\* the inputs a fetch_users call consumes, given whether it hits the cache
WriteFaultsOf(use_cache, resp) ==
  IF use_cache /\ Raised(resp) = "none" /\ ~IsEmpty(resp.json) THEN WriteFaults
  ELSE {"none"}

Hits(f, file, t, force_refresh, readFails) ==
  fetch_users(f, file, t, force_refresh, NoResponse, readFails, "none", 0).hit

Next ==
  \/ Tick
  \/ Continue
  \/ \E use_cache \in BOOLEAN :
       \E d \in (IF use_cache THEN Durations ELSE {0}),
          mkdirFails \in (IF use_cache THEN BOOLEAN ELSE {FALSE}) :
         Construct(use_cache, d, mkdirFails)
  \/ \E readFails \in ReadFaults(cacheFile) : Get(readFails)
  \/ /\ Idle /\ fetcher.alive
     /\ \E force_refresh \in BOOLEAN, readFails \in ReadFaults(cacheFile) :
          IF Hits(fetcher, cacheFile, now, force_refresh, readFails)
          THEN FetchUsers(force_refresh, NoResponse, readFails, "none", 0)
          ELSE \E resp \in CoreResponses, delay \in Delays :
                 \E writeFault \in WriteFaultsOf(fetcher.use_cache, resp) :
                   FetchUsers(force_refresh, resp, readFails, writeFault, delay)
  \/ \E unlinkFails \in BOOLEAN : ClearCache(unlinkFails)

Spec == Init /\ [][Next]_vars

\* ------------------------------------------- runs of the command line tool
\* whether the fetch of a run hits the cache, and the inputs the run consumes
CliHits(no_cache, readFails) ==
  Hits(UserFetcher_init(~no_cache, DefaultCacheDuration, FALSE).fetcher,
       cacheFile, now, FALSE, readFails)

CliResponses(no_cache, readFails) ==
  IF CliHits(no_cache, readFails) THEN {NoResponse} ELSE Responses

Shows(no_cache, readFails, resp) ==
  CliHits(no_cache, readFails) \/ (Raised(resp) = "none" /\ ~IsEmpty(resp.json))

NextCli ==
  \/ Tick
  \/ Continue
  \/ \E no_cache \in BOOLEAN :
       \E mkdirFails \in (IF no_cache THEN {FALSE} ELSE BOOLEAN),
          unlinkFails \in (IF no_cache THEN {FALSE} ELSE BOOLEAN),
          clear_cache \in BOOLEAN :
         /\ mkdirFails \/ clear_cache
         /\ Main([no_cache |-> no_cache, clear_cache |-> clear_cache,
                  filter_s |-> FALSE, format |-> "pretty", limit |-> NoneT,
                  search |-> <<>>, search_field |-> "name", stats |-> FALSE,
                  save |-> <<>>],
                 [mkdirFails |-> mkdirFails, unlinkFails |-> unlinkFails,
                  resp |-> NoResponse, readFails |-> FALSE, writeFault |-> "none",
                  delay |-> 0, saveFault |-> "none"])
  \/ /\ Idle
     /\ \E no_cache \in BOOLEAN, readFails \in ReadFaults(cacheFile) :
          \E resp \in CliResponses(no_cache, readFails),
             delay \in (IF CliHits(no_cache, readFails) THEN {0} ELSE Delays) :
            \E writeFault \in (IF CliHits(no_cache, readFails) THEN {"none"}
                               ELSE WriteFaultsOf(~no_cache, resp)) :
              \E filter_s \in (IF Shows(no_cache, readFails, resp) THEN BOOLEAN
                               ELSE {FALSE}),
                 format \in (IF Shows(no_cache, readFails, resp) THEN Formats
                             ELSE {"pretty"}),
                 limit \in (IF Shows(no_cache, readFails, resp) THEN Limits
                            ELSE {NoneT}) :
                Main([no_cache |-> no_cache, clear_cache |-> FALSE,
                      filter_s |-> filter_s, format |-> format, limit |-> limit,
                      search |-> <<>>, search_field |-> "name", stats |-> FALSE,
                      save |-> <<>>],
                     [mkdirFails |-> FALSE, unlinkFails |-> FALSE, resp |-> resp,
                      readFails |-> readFails, writeFault |-> writeFault,
                      delay |-> delay, saveFault |-> "none"])

SpecCli == Init /\ [][NextCli]_vars

\* ------------------------------- runs with --search, --stats and --save
\* the lists the upstream answers with, the queries and the file names
RunBodies ==
  { <<U1, U2, U3>>, <<UBadAddress, U1>>, <<U1, UBadCompany, U2>>, <<U2, UBadName>> }
RunResponses ==
  { [exc |-> "none", status |-> 200, parses |-> TRUE, json |-> b, jsonError |-> "none"] :
      b \in RunBodies }
Queries == { <<"B">>, <<"a", "b">>, <<"s">> }
JsonName == <<"u", ".", "j", "s", "o", "n">>
CsvName == <<"u", ".", "c", "s", "v">>

NextRun ==
  \/ Continue
  \/ /\ Idle
     /\ \E no_cache \in BOOLEAN :
          \E resp \in (IF CliHits(no_cache, FALSE) THEN {NoResponse} ELSE RunResponses),
             search \in {<<>>} \cup Queries, stats \in BOOLEAN,
             save \in {<<>>, JsonName, CsvName}, filter_s \in BOOLEAN,
             format \in {"minimal", "csv"}, limit \in {NoneT, SomeT(1)} :
            \E search_field \in (IF search = <<>> THEN {"name"} ELSE {"name", "city"}),
               saveFault \in (IF save = JsonName THEN SaveFaults ELSE {"none"}) :
              Main([no_cache |-> no_cache, clear_cache |-> FALSE,
                    filter_s |-> filter_s, format |-> format, limit |-> limit,
                    search |-> search, search_field |-> search_field,
                    stats |-> stats, save |-> save],
                   [mkdirFails |-> FALSE, unlinkFails |-> FALSE, resp |-> resp,
                    readFails |-> FALSE, writeFault |-> "none", delay |-> 0,
                    saveFault |-> saveFault])

SpecRun == Init /\ [][NextRun]_vars

\* ------------------------------------------------- the display step alone
NextDisplay ==
  \/ Continue
  \/ \E use_cache \in BOOLEAN : Construct(use_cache, 0, FALSE)
  \/ \E users \in DisplayBatches, filter_by_s \in BOOLEAN, format_type \in Formats,
        limit \in Limits : DisplayUsers(users, filter_by_s, format_type, limit)

SpecDisplay == Init /\ [][NextDisplay]_vars

\* ------------------------------------------------------------- properties
Fetched == call.res.phase \in {"fetch", "search", "display", "stats", "done"}
Tags ==
  {"Timeout", "ConnectionFailure", "HttpError", "TransportError", "ParseError",
   "EmptyResult", "Success"}

\* C1: CacheManager.get() on an existing cache file that is read and parsed
\* returns the cached data when the time elapsed since the entry's timestamp
\* is below cache_duration, and None when it equals or exceeds it.
C1_ValidIffYounger ==
  (call.op = "get" /\ cacheFile.kind = "json" /\ ~call.args.readFails) =>
    LET elapsed == now - cacheFile.timestamp
    IN /\ elapsed < fetcher.cache_duration => call.res.ret = SomeU(cacheFile.data)
       /\ elapsed >= fetcher.cache_duration => call.res.ret = NoneU

\* a get at the boundary: the entry is exactly cache_duration old
C1_Witness ==
  /\ call.op = "get" /\ cacheFile.kind = "json" /\ ~call.args.readFails
  /\ fetcher.cache_duration > 0
  /\ now - cacheFile.timestamp = fetcher.cache_duration
  /\ call.res.ret = NoneU

\* the second of two fetch_users calls on a caching fetcher, neither forced,
\* the first a miss, the second begun within cache_duration of the first's end
TwoCallsInWindow ==
  /\ call.op = "fetch" /\ prev.made /\ fetcher.use_cache
  /\ ~prev.force /\ ~call.args.force
  /\ prev.gets > 0
  /\ call.t - prev.tEnd < fetcher.cache_duration

SecondCallServedFromCache ==
  /\ prev.gets + call.res.gets = 1
  /\ call.res.hit /\ call.res.tag = "Success"
  /\ call.res.ret = prev.ret

EmptyListAnswer(resp) ==
  /\ resp.exc = "none" /\ resp.status >= 200 /\ resp.status < 300
  /\ resp.parses /\ resp.json = <<>>

\* C3: when the upstream answers successfully with an empty list, fetch_users
\* prints a warning and returns None (EmptyResult), the cache file stays as
\* it was, and the command line run exits with a non-zero status.
C3_EmptyList ==
  [][(Idle /\ call'.op = "main" /\ EmptyListAnswer(call'.args.resp))
     => (/\ call'.res.tag = "EmptyResult"
         /\ call'.res.ret = NoneU
         /\ call'.res.message = "warning_empty_list"
         /\ cacheFile' = cacheFile
         /\ call'.res.exit # 0)]_vars

\* a run that got [] while an entry of an earlier run was in the cache file
C3_Witness ==
  /\ call.op = "main" /\ EmptyListAnswer(call.args.resp)
  /\ call.res.tag = "EmptyResult" /\ call.res.exit = 1
  /\ cacheFile.kind = "json"

\* C4: a fetch_users call that does not hit the cache issues exactly one GET
\* and returns with one of the seven outcomes; a run of the command line
\* tool issues at most one GET.
C4_OneGetNoRetry ==
  call.op = "main" =>
    /\ call.res.gets <= 1
    /\ (Fetched /\ ~call.res.hit) => (call.res.gets = 1 /\ call.res.tag \in Tags)
    /\ (Fetched /\ call.res.hit) => call.res.gets = 0
    /\ ~Fetched => call.res.gets = 0

\* a run whose only GET timed out
C4_Witness ==
  /\ call.op = "main" /\ call.args.resp.exc = "ReadTimeout"
  /\ call.res.tag = "Timeout" /\ call.res.gets = 1 /\ call.res.exit = 1

\* a network fetch of a caching fetcher has just returned Success
FetchedAndCaching ==
  /\ call.op = "fetch" /\ ~call.res.hit /\ call.res.tag = "Success"
  /\ fetcher.use_cache

\* the cache file holds the returned records, stamped with the time of the
\* write, and a read at any elapsed time below cache_duration returns them
CacheHoldsReturned ==
  /\ cacheFile = JsonFile(now, call.res.ret.v)
  /\ \A e \in 0..(fetcher.cache_duration - 1) :
       CacheManager_get(cacheFile, fetcher.cache_duration, now + e, FALSE).ret
         = call.res.ret

\* C5 as stated: whenever a network fetch ends in Success with caching on,
\* the cache entry holds the returned records on return.
C5_AlwaysCached == FetchedAndCaching => CacheHoldsReturned

\* C5: when a network fetch ends in Success with caching on and the write of
\* the cache file does not fail, the cache entry on return holds exactly the
\* returned records, stamped with the time of the write, in place of any
\* earlier entry, and a read at any elapsed time below cache_duration
\* returns those records.
C5_CachedOnSuccess ==
  (FetchedAndCaching /\ call.args.writeFault = "none") => CacheHoldsReturned

\* a successful fetch that replaced the other records an earlier fetch cached
C5_Witness ==
  /\ FetchedAndCaching /\ call.args.writeFault = "none"
  /\ prev.made /\ prev.wrote /\ prev.ret # call.res.ret
  /\ fetcher.cache_duration > 0

\* C6: every GET after the first of a fetcher is issued at least min_interval
\* after the recorded time of the request before, whatever that recorded time
\* is: _rate_limit sleeps min_interval minus the elapsed time when the
\* elapsed time is below min_interval, and does not sleep otherwise.
C6_MinimumGap ==
  [][(Idle /\ call'.op = "fetch" /\ ~call'.res.hit
      /\ ~fetcher.last_request_time.isNone)
     => LET last == fetcher.last_request_time.v
            elapsed == now - last
        IN /\ call'.res.tGet >= last + MinInterval
           /\ call'.res.slept = IF elapsed < MinInterval
                                THEN MinInterval - elapsed ELSE 0]_vars

\* C7: no failure of a cache operation surfaces: a failing read is a miss
\* and the fetch goes to the network, a failing write leaves the fetch a
\* Success with its records, and no exception of the cache directory's
\* creation, a read, a write or a clear ends the run.
C7_CacheErrorsAbsorbed ==
  call.op = "main" =>
    /\ call.res.raised # "OSError"
    /\ (call.args.readFails /\ Fetched) => (~call.res.hit /\ call.res.gets = 1)
    /\ call.args.writeFault # "none" =>
         (call.res.tag = "Success" /\ call.res.ret = SomeU(call.args.resp.json))

\* the outcome the mapping of C8 gives an answer
ExpectedTag(resp) ==
  CASE resp.exc \in {"ReadTimeout", "ConnectTimeout"} -> "Timeout"
    [] resp.exc = "ConnectionError" -> "ConnectionFailure"
    [] resp.exc = "TooManyRedirects" -> "TransportError"
    [] resp.exc = "none" /\ (resp.status < 200 \/ resp.status >= 300) -> "HttpError"
    [] resp.exc = "none" /\ resp.status >= 200 /\ resp.status < 300 /\ ~resp.parses
         -> "ParseError"
    [] resp.exc = "none" /\ resp.status >= 200 /\ resp.status < 300 /\ resp.parses
         /\ resp.json = <<>> -> "EmptyResult"
    [] OTHER -> "Success"

\* C8: a fetch that reaches the network gets exactly the outcome of its
\* answer: HttpError for a status that is not 2xx, Timeout, ConnectionFailure,
\* TransportError for any other transport exception, ParseError for a body
\* that does not parse, EmptyResult for an empty list, Success otherwise.
C8_OutcomeMapping ==
  (call.op = "main" /\ Fetched /\ ~call.res.hit) =>
    /\ call.res.tag = ExpectedTag(call.args.resp)
    /\ call.res.tag = "Success" <=> call.res.ret = SomeU(call.args.resp.json)

\* the first n of s
FirstN(s, n) == SubSeq(s, 1, Min(n, Len(s)))

\* a display_users call on a batch of well-formed records, with no limit or
\* a limit that is not negative
WellFormedDisplay ==
  /\ call.op = "display" /\ call.res.raised = "none"
  /\ \A i \in 1..Len(call.args.users) :
       /\ call.args.users[i].address.kind # "str"
       /\ call.args.users[i].company.kind # "str"
  /\ call.args.limit.isNone \/ call.args.limit.v >= 0

\* C9: display_users shows the first n of the records that pass the city
\* filter, in their order: all of them when n is absent or n >= their
\* number, none of them when n = 0.
C9_LimitKeepsFirstN ==
  WellFormedDisplay =>
    LET kept == FilterAndLimit(call.args.users, call.args.filter_by_s, NoneT)
        ids == [i \in 1..Len(kept) |-> kept[i].id]
    IN call.res.shown = IF call.args.limit.isNone THEN ids
                        ELSE FirstN(ids, call.args.limit.v)

\* C10: in a batch with a record whose address is not a mapping, that record
\* alone is skipped with a warning and every other record is rendered, in
\* every format; no exception leaves display_users.
C10_BadRecordSkipped ==
  (/\ call.op = "display" /\ ~call.args.filter_by_s /\ call.args.limit.isNone
   /\ \E i \in 1..Len(call.args.users) : call.args.users[i].address.kind = "str"
   /\ \A i \in 1..Len(call.args.users) : call.args.users[i].company.kind # "str")
  => LET users == call.args.users
         bad == {i \in 1..Len(users) : users[i].address.kind = "str"}
     IN /\ call.res.raised = "none"
        /\ call.res.skipped = Ids(users, bad)
        /\ call.res.shown = Ids(users, (1..Len(users)) \ bad)

\* the sum of the counts of the statistics' cities
RECURSIVE CountSum(_, _)
CountSum(cities, n) == IF n = 0 THEN 0 ELSE CountSum(cities, n - 1) + cities[n].count

\* a run of the command line tool that displayed records and went on
Displayed == call.op = "main" /\ call.res.phase \in {"stats", "done"}

\* C11: in a run of the command line tool, get_statistics and save_to_file
\* work on the records the fetch (or the cache hit) returned, which search,
\* the city filter and the limit leave as they were: the statistics count
\* every fetched record and the saved file holds every fetched record,
\* whatever was displayed.
C11_StatsAndSaveCoverAll ==
  Displayed =>
    LET fetched == call.res.ret.v
    IN /\ call.res.self_users = call.res.ret
       /\ call.args.stats =>
            /\ call.res.raised = "none"
            /\ call.res.stats.printed
            /\ call.res.stats.total = Len(fetched)
            /\ CountSum(call.res.stats.cities, Len(call.res.stats.cities)) = Len(fetched)
       /\ (call.args.save # <<>> /\ call.args.saveFault = "none") =>
            /\ call.res.phase = "done"
            /\ call.res.out.rows = Ids(fetched, 1..Len(fetched))
====
